---- MODULE Spec2Model ----
(***************************************************************************)
(* Model of tiny-dfr (src/src/main.rs): the button/layer model, touch      *)
(* session tracking, the layer switch logic, the virtual key emitter and   *)
(* the single-threaded event loop with hot configuration reload.           *)
(***************************************************************************)
EXTENDS Integers, Sequences, FiniteSets, TLC

\* ------------------------------------------------------------------------
\* Bounds of the model and sampled inputs
\* ------------------------------------------------------------------------
\* inputs of a run: events dispatched and rewrites of /etc/tiny-dfr.conf
MaxInputs == 3
\* touch slots of the digitizer
NumSlots == 1
\* distance between sampled touch x coordinates
XStep == 330
\* panel height reported by the display backend (drm.mode().size())
Height == 60

\* panel widths reported by the display backend: a narrow and a wide panel
\* largest button count given to button_hit on its own
MaxNum == 14
\* distance between the x coordinates given to button_hit on its own
HitXStep == 13
\* most events one libinput context yields in one iteration
MaxQueue == 2

Widths == {2008, 2170}
Slots == 0 .. (NumSlots - 1)

\* ------------------------------------------------------------------------
\* Program constants
\* ------------------------------------------------------------------------
NarrowThreshold == 2170
NumLayers == 5
Radius == 8

\* LayerType as usize: Function = 0, Special = 1, SpecialExtended = 2
LayerType == 0 .. 2

\* sampled configurations (ui.primary_layer, ui.secondary_layer)
Configs == {[primary_layer |-> 0, secondary_layer |-> 1],
            [primary_layer |-> 2, secondary_layer |-> 2]}
\* the contents of /etc/tiny-dfr.conf: one that parses to cfg, and one that
\* does not parse
FileOf(cfg) == [valid |-> TRUE, cfg |-> cfg]
Bad == [valid |-> FALSE, cfg |-> <<>>]
FileContents == {FileOf(cfg) : cfg \in Configs} \cup {Bad}

\* input devices: "tb" has a name containing " Touch Bar", "kbd" has not
Devices == {"tb", "kbd"}
NameContainsTouchBar(dev) == dev = "tb"
None == "none"

VARIABLES
    width,                  \* panel width (drm.mode().size())
    file,                   \* content of /etc/tiny-dfr.conf
    file_mtime,             \* its modification time
    config,                 \* main: config
    last_modified_time,     \* main: last_modified_time
    current_modified_time,  \* main: current_modified_time (loop local)
    active_layer,           \* main: active_layer
    layers,                 \* main: layers, [0..4 -> Seq(Button)]
    needs_complete_redraw,  \* main: needs_complete_redraw
    digitizer,              \* main: digitizer
    touches,                \* main: touches, slot -> <<layer, btn>>
    bl,                     \* backlight.current_bl()
    fingers,                \* slots of the digitizer with a finger down
    pc,                     \* position in the loop body
    nev,                    \* inputs consumed so far
    out,                    \* events written to uinput by the last step
    clips,                  \* clip rectangles flushed by the last step
    g_phase,                \* scenarios: position in the script, or how the
                            \* reload attempts have ended so far
    g_slot,                 \* gesture scenario: the slot and button used
    g_log,                  \* scenarios: the uinput stream so far, with the
                            \* activations or the fingers' positions
    probe,                  \* function harness: the arguments and the result
    inputs,                 \* two-source scenario: what the sources yielded
                            \* in this iteration and how far the loop got
    event                   \* the event handled by the last step, with current_bl()

vars == <<width, file, file_mtime, config, last_modified_time,
          current_modified_time, active_layer, layers,
          needs_complete_redraw, digitizer, touches, bl, fingers, pc, nev,
          out, clips, g_phase, g_slot, g_log, probe, inputs,
          event>>

\* ------------------------------------------------------------------------
\* Button and layers
\* ------------------------------------------------------------------------
\* Button::new_text / new_icon / new_time / new_blank: active and changed
\* start false; the image plays no role in the state machine
NewButton(action) == [action |-> action, active |-> FALSE, changed |-> FALSE]

new_time == NewButton("Time")
new_blank == NewButton("Unknown")

LayerKeys ==
    [l \in 0 .. (NumLayers - 1) |->
        CASE l = 0 -> <<"Esc", "F1", "F2", "F3", "F4", "F5", "F6", "F7",
                        "F8", "F9", "F10", "F11", "F12">>
          [] l = 1 -> <<"Esc", "BrightnessDown", "BrightnessUp", "MicMute",
                        "Search", "IllumDown", "IllumUp", "PreviousSong",
                        "PlayPause", "NextSong", "Mute", "VolumeDown",
                        "VolumeUp">>
          [] l = 2 -> <<"Esc", "Prog1", "Prog2", "Prog3", "Prog4", "Macro1",
                        "Time", "Unknown", "Unknown", "VolumeDown",
                        "VolumeUp", "PlayPause", "Search", "Macro3">>
          [] l = 3 -> <<"Esc", "Macro2", "WWW", "Calc", "File",
                        "AllApplications", "Time", "Unknown", "Unknown",
                        "VolumeDown", "VolumeUp", "PlayPause", "Search",
                        "Macro3">>
          [] l = 4 -> <<"Esc", "Macro2", "BrightnessDown", "BrightnessUp",
                        "MicMute", "IllumDown", "IllumUp", "PreviousSong",
                        "PlayPause", "NextSong", "Mute", "VolumeDown",
                        "VolumeUp">>]

initialize_layers ==
    [l \in 0 .. (NumLayers - 1) |->
        [i \in 1 .. Len(LayerKeys[l]) |-> NewButton(LayerKeys[l][i])]]

\* if width < 2170 { for layer in &mut layers { layer.buttons.remove(0); } }
RemoveFirstIfNarrow(w, ls) ==
    IF w < NarrowThreshold
    THEN [l \in DOMAIN ls |-> Tail(ls[l])]
    ELSE ls

\* buttons[btn] for a 0-based index
ButtonAt(ls, l, btn) == ls[l][btn + 1]
NumButtons(ls, l) == Len(ls[l])

\* ------------------------------------------------------------------------
\* Virtual key emitter
\* ------------------------------------------------------------------------
emit(ty, code, value) == [type |-> ty, code |-> code, value |-> value]

\* mutant: the report event is forgotten
toggle_key_no_report(code, value) == <<emit("Key", code, value)>>

toggle_key(code, value) ==
    <<emit("Key", code, value), emit("Synchronize", "Report", 0)>>

BoolToInt(b) == IF b THEN 1 ELSE 0

\* mutant: the comparison with the current value is forgotten
set_active_unguarded(button, active) ==
    [button |-> [button EXCEPT !.active = active, !.changed = TRUE],
     written |-> toggle_key(button.action, BoolToInt(active))]

\* Button::set_active: the button afterwards and the events written
set_active(button, active) ==
    IF button.active # active
    THEN [button |-> [button EXCEPT !.active = active, !.changed = TRUE],
          written |-> toggle_key(button.action, BoolToInt(active))]
    ELSE [button |-> button, written |-> <<>>]

\* ------------------------------------------------------------------------
\* Hit testing, in exact arithmetic: with D = (num+1)*(num-1),
\*   button_width = width/(num+1), spacing_width = width/D,
\*   left_edge = idx*width*num/D
\* ------------------------------------------------------------------------
\* mutant: the spacing between the buttons is left out of the left edge
button_hit_no_spacing(num, idx, w, h, x, y) ==
    LET D == (num + 1) * (num - 1)
        left_edge_D == idx * w * (num - 1)
        right_edge_D == left_edge_D + w * (num - 1)
    IN  IF x * D < left_edge_D \/ x * D > right_edge_D
        THEN FALSE
        ELSE 100 * y > 9 * h /\ 100 * y < 91 * h

button_hit(num, idx, w, h, x, y) ==
    LET D == (num + 1) * (num - 1)
        left_edge_D == idx * w * num
        right_edge_D == left_edge_D + w * (num - 1)
    IN  IF x * D < left_edge_D \/ x * D > right_edge_D
        THEN FALSE
        ELSE 100 * y > 9 * h /\ 100 * y < 91 * h

\* mutant: x is divided by the button width instead of the cell pitch
CandidateButton_by_width(num, w, x) == (x * (num + 1)) \div w

\* (x / (width as f64 / len as f64)) as u32
CandidateButton(num, w, x) == (x * num) \div w

\* ------------------------------------------------------------------------
\* FunctionLayer::draw: the buttons afterwards and the clip rectangles.
\* `as u16` casts truncate; u16 arithmetic is kept modulo 2^16.
\* ------------------------------------------------------------------------
U16(n) == n % 65536

ClipRect(x1, y1, x2, y2) == [x1 |-> x1, y1 |-> y1, x2 |-> x2, y2 |-> y2]

\* the whole surface
FullClip(w, h) == ClipRect(0, 0, U16(h), U16(w))

\* the rectangle pushed for button i (0-based) of `buttons`
ButtonClip(buttons, i, w, h) ==
    LET num == Len(buttons)
        D == (num + 1) * (num - 1)
        left_edge == (i * w * num) \div D
        button_width == w \div (num + 1)
        top == (85 * h) \div 100
        bot == (15 * h) \div 100
        span == IF buttons[i + 1].action = "Time"
                THEN U16(button_width * 3) ELSE button_width
    IN  ClipRect(U16(U16(h - top) - Radius), U16(left_edge),
                 U16(U16(h - bot) + Radius), U16(left_edge + span))

RECURSIVE ModifiedRegions(_, _, _, _)
ModifiedRegions(buttons, i, w, h) ==
    IF i >= Len(buttons) THEN <<>>
    ELSE (IF buttons[i + 1].changed
          THEN <<ButtonClip(buttons, i, w, h)>> ELSE <<>>)
         \o ModifiedRegions(buttons, i + 1, w, h)

\* mutant: an incremental pass returns a rectangle for every button
draw_every_button(buttons, w, h, complete_redraw) ==
    [buttons |-> [i \in DOMAIN buttons |->
                    IF buttons[i].changed \/ complete_redraw
                    THEN [buttons[i] EXCEPT !.changed = FALSE]
                    ELSE buttons[i]],
     clips |-> IF complete_redraw
               THEN <<FullClip(w, h)>>
               ELSE ModifiedRegions(
                       [i \in DOMAIN buttons |->
                          [buttons[i] EXCEPT !.changed = TRUE]], 0, w, h)]

draw(buttons, w, h, complete_redraw) ==
    [buttons |-> [i \in DOMAIN buttons |->
                    IF buttons[i].changed \/ complete_redraw
                    THEN [buttons[i] EXCEPT !.changed = FALSE]
                    ELSE buttons[i]],
     clips |-> IF complete_redraw
               THEN <<FullClip(w, h)>>
               ELSE ModifiedRegions(buttons, 0, w, h)]

AnyChanged(buttons) == \E i \in DOMAIN buttons : buttons[i].changed

\* ------------------------------------------------------------------------
\* Keyboard events: layer switching
\* ------------------------------------------------------------------------
\* mutant: Fn latches the secondary layer
FnLayer_latched(key_state, cfg) == cfg.secondary_layer

\* Key::Fn: pressed -> secondary layer, released -> primary layer
FnLayer(key_state, cfg) ==
    IF key_state = "Pressed" THEN cfg.secondary_layer ELSE cfg.primary_layer

\* mutant: the layers numbered in the order of the key names
MacroLayer_by_name(key) ==
    CASE key = "Macro1" -> 2
      [] key = "Macro2" -> 3
      [] key = "Macro3" -> 4

\* mutant: the macro layers numbered one too high
MacroLayer_shifted(key) ==
    CASE key = "Macro1" -> 4
      [] key = "Macro2" -> 3
      [] key = "Macro3" -> 5

\* the fixed layer index of a macro key
MacroLayer(key) ==
    CASE key = "Macro1" -> 3
      [] key = "Macro2" -> 2
      [] key = "Macro3" -> 4

MacroKeys == {"Macro1", "Macro2", "Macro3"}

\* mutant: a macro key switches the layer on release as well
keyboard_key_any_state(key, key_state, cfg, al, ncr) ==
    IF key = "Fn"
    THEN LET new_layer == FnLayer(key_state, cfg)
         IN  IF al # new_layer
             THEN [active_layer |-> new_layer, needs_complete_redraw |-> TRUE]
             ELSE [active_layer |-> al, needs_complete_redraw |-> ncr]
    ELSE IF key \in MacroKeys
    THEN [active_layer |-> MacroLayer(key), needs_complete_redraw |-> TRUE]
    ELSE [active_layer |-> al, needs_complete_redraw |-> ncr]

\* mutant: Fn switches the layer without asking for a complete redraw
keyboard_key_no_redraw(key, key_state, cfg, al, ncr) ==
    IF key = "Fn"
    THEN [active_layer |-> FnLayer(key_state, cfg),
          needs_complete_redraw |-> ncr]
    ELSE IF key \in MacroKeys /\ key_state = "Pressed"
    THEN [active_layer |-> MacroLayer(key), needs_complete_redraw |-> TRUE]
    ELSE [active_layer |-> al, needs_complete_redraw |-> ncr]

\* Event::Keyboard(KeyboardEvent::Key(key)): the new active_layer and
\* needs_complete_redraw
keyboard_key(key, key_state, cfg, al, ncr) ==
    IF key = "Fn"
    THEN LET new_layer == FnLayer(key_state, cfg)
         IN  IF al # new_layer
             THEN [active_layer |-> new_layer, needs_complete_redraw |-> TRUE]
             ELSE [active_layer |-> al, needs_complete_redraw |-> ncr]
    ELSE IF key \in MacroKeys /\ key_state = "Pressed"
    THEN [active_layer |-> MacroLayer(key), needs_complete_redraw |-> TRUE]
    ELSE [active_layer |-> al, needs_complete_redraw |-> ncr]

\* ------------------------------------------------------------------------
\* Touch events (after gating): the new layers and touches and the events
\* written to uinput
\* ------------------------------------------------------------------------
Inert(button) == button.action = "Unknown" \/ button.action = "Time"

Untouched(ls, tch) == [layers |-> ls, touches |-> tch, written |-> <<>>]

WithButton(ls, l, btn, tch, r) ==
    [layers |-> [ls EXCEPT ![l][btn + 1] = r.button],
     touches |-> tch,
     written |-> r.written]

\* touches.insert(slot, (layer, btn))
Insert(tch, slot, val) ==
    [s \in (DOMAIN tch) \cup {slot} |-> IF s = slot THEN val ELSE tch[s]]

\* mutant: the no-op / clock check is forgotten
touch_down_inert(slot, x, y, ls, al, tch, w, h) ==
    LET num == NumButtons(ls, al)
        btn == CandidateButton(num, w, x)
    IN  IF button_hit(num, btn, w, h, x, y)
        THEN WithButton(ls, al, btn, Insert(tch, slot, <<al, btn>>),
                        set_active(ButtonAt(ls, al, btn), TRUE))
        ELSE Untouched(ls, tch)

\* mutant: the session is inserted before the hit test
touch_down_no_hit(slot, x, y, ls, al, tch, w, h) ==
    LET num == NumButtons(ls, al)
        btn == CandidateButton(num, w, x)
    IN  IF button_hit(num, btn, w, h, x, y) /\ ~Inert(ButtonAt(ls, al, btn))
        THEN WithButton(ls, al, btn, Insert(tch, slot, <<al, btn>>),
                        set_active(ButtonAt(ls, al, btn), TRUE))
        ELSE IF btn < num /\ ~Inert(ButtonAt(ls, al, btn))
        THEN [layers |-> ls, touches |-> Insert(tch, slot, <<al, btn>>),
              written |-> <<>>]
        ELSE Untouched(ls, tch)

touch_down(slot, x, y, ls, al, tch, w, h) ==
    LET num == NumButtons(ls, al)
        btn == CandidateButton(num, w, x)
    IN  IF button_hit(num, btn, w, h, x, y)
        THEN IF Inert(ButtonAt(ls, al, btn))
             THEN Untouched(ls, tch)
             ELSE WithButton(ls, al, btn, Insert(tch, slot, <<al, btn>>),
                             set_active(ButtonAt(ls, al, btn), TRUE))
        ELSE Untouched(ls, tch)

touch_motion(slot, x, y, ls, tch, w, h) ==
    IF slot \notin DOMAIN tch
    THEN Untouched(ls, tch)
    ELSE LET layer == tch[slot][1]
             btn == tch[slot][2]
             hit == button_hit(NumButtons(ls, layer), btn, w, h, x, y)
         IN  IF Inert(ButtonAt(ls, layer, btn))
             THEN Untouched(ls, tch)
             ELSE WithButton(ls, layer, btn, tch,
                             set_active(ButtonAt(ls, layer, btn), hit))

touch_up(slot, ls, tch) ==
    IF slot \notin DOMAIN tch
    THEN Untouched(ls, tch)
    ELSE LET layer == tch[slot][1]
             btn == tch[slot][2]
         IN  IF Inert(ButtonAt(ls, layer, btn))
             THEN Untouched(ls, tch)
             ELSE WithButton(ls, layer, btn, tch,
                             set_active(ButtonAt(ls, layer, btn), FALSE))

\* mutant: the backlight level is not consulted
Gated_device_only(dev, dig, level) == dev # dig

\* if Some(te.device()) != digitizer || backlight.current_bl() == 0 { continue }
Gated(dev, dig, level) == dev # dig \/ level = 0

touch_event(te, ls, al, tch, dig, level, w, h) ==
    IF Gated(te.dev, dig, level) THEN Untouched(ls, tch)
    ELSE CASE te.kind = "Down" ->
                touch_down(te.slot, te.x, te.y, ls, al, tch, w, h)
           [] te.kind = "Motion" ->
                touch_motion(te.slot, te.x, te.y, ls, tch, w, h)
           [] te.kind = "Up" -> touch_up(te.slot, ls, tch)
           [] OTHER -> Untouched(ls, tch)

\* ------------------------------------------------------------------------
\* Events yielded by the two libinput contexts
\* ------------------------------------------------------------------------
XS(w) == {k * XStep : k \in 0 .. ((w - 1) \div XStep)}

DeviceEvents == [type : {"DeviceAdded"}, dev : Devices]

KeyboardEvents ==
    [type : {"Keyboard"},
     key : {"Fn", "Macro1", "Macro2", "Macro3", "A"},
     key_state : {"Pressed", "Released"}]

\* sampled touch points: along the middle of the strip, and one point above
\* the activation band
Points(w) == {<<x, Height \div 2>> : x \in XS(w)} \cup {<<0, 2>>}

TouchEvent(kind, dev, slot, p) ==
    [type |-> "Touch", kind |-> kind, dev |-> dev, slot |-> slot,
     x |-> p[1], y |-> p[2]]

\* touch events of the digitizer, and of another device at one point inside
\* the first button; up and frame events carry no position
TouchEvents(w) ==
    {TouchEvent(kind, "tb", slot, p) :
        kind \in {"Down", "Motion"}, slot \in Slots, p \in Points(w)}
    \cup
    {TouchEvent(kind, "kbd", slot, <<0, Height \div 2>>) :
        kind \in {"Down", "Motion"}, slot \in Slots}
    \cup
    {TouchEvent("Up", dev, slot, <<0, 0>>) : dev \in Devices, slot \in Slots}
    \cup
    {TouchEvent("Frame", dev, 0, <<0, 0>>) : dev \in Devices}

OtherEvents == {[type |-> "Pointer"]}

Events(w) == DeviceEvents \cup KeyboardEvents \cup TouchEvents(w)
             \cup OtherEvents

\* libinput yields well-formed sequences: events of a device only after its
\* DeviceAdded, a down only for a lifted slot, motion and up only for a slot
\* that is down.  Only the digitizer's slots are tracked.
WellFormed(ev) ==
    ev.type = "Touch" /\ ev.dev = "tb" =>
        /\ digitizer = "tb"
        /\ ev.kind = "Down" => ev.slot \notin fingers
        /\ ev.kind \in {"Motion", "Up"} => ev.slot \in fingers

FingersAfter(ev) ==
    IF ev.type = "Touch" /\ ev.dev = "tb"
    THEN CASE ev.kind = "Down" -> fingers \cup {ev.slot}
           [] ev.kind = "Up" -> fingers \ {ev.slot}
           [] OTHER -> fingers
    ELSE fingers

\* the levels current_bl() may report (the loop only tells level 0 from the
\* others)
BacklightLevels == {0, 1}

\* backlight.process_event(&event) records the activity and leaves the level
\* to update_backlight, which may set any level
ProcessEventLevels(level) == {level}
UpdateBacklightLevels(level) == BacklightLevels

\* ------------------------------------------------------------------------
\* Initial state: main() up to the loop
\* ------------------------------------------------------------------------
Init ==
    /\ width \in Widths
    /\ file \in FileContents \ {Bad}
    /\ file_mtime = 0
    /\ config = file.cfg
    /\ last_modified_time = 0
    /\ current_modified_time = 0
    /\ active_layer = config.primary_layer
    /\ layers = RemoveFirstIfNarrow(width, initialize_layers)
    /\ needs_complete_redraw = TRUE
    /\ digitizer = None
    /\ touches = <<>>
    /\ bl \in BacklightLevels
    /\ fingers = {}
    /\ pc = "reload"
    /\ nev = 0
    /\ out = <<>>
    /\ clips = <<>>
    /\ g_phase = 0
    /\ g_slot = <<>>
    /\ g_log = [stream |-> <<>>, act |-> <<>>]
    /\ probe = <<>>
    /\ inputs = <<>>
    /\ event = <<>>

gvars == <<g_phase, g_slot, g_log, probe, inputs>>
filevars == <<file, file_mtime>>
worldvars == <<active_layer, layers, needs_complete_redraw, digitizer,
               touches>>

\* ------------------------------------------------------------------------
\* Another process rewrites the configuration file.  A rewrite is only
\* distinguishable where the loop reads the file, so it is interleaved with
\* the reload steps only.
\* ------------------------------------------------------------------------
WriteFile(c) ==
    /\ pc \in {"reload", "parse", "init"}
    /\ nev < MaxInputs
    /\ nev' = nev + 1
    /\ file' = c
    /\ file_mtime' = file_mtime + 1
    /\ out' = <<>>
    /\ clips' = <<>>
    /\ event' = <<>>
    /\ UNCHANGED <<width, config, last_modified_time, current_modified_time,
                   worldvars, bl, fingers, pc, gvars>>

\* ------------------------------------------------------------------------
\* The loop body
\* ------------------------------------------------------------------------
\* let current_modified_time = ...; if current_modified_time != last_modified_time
ReloadCheck ==
    /\ pc = "reload"
    /\ current_modified_time' = file_mtime
    /\ pc' = IF file_mtime # last_modified_time THEN "parse" ELSE "clock"
    /\ out' = <<>>
    /\ clips' = <<>>
    /\ event' = <<>>
    /\ UNCHANGED <<width, filevars, config, last_modified_time, worldvars,
                   bl, fingers, nev, gvars>>

\* mutant: a failed reload falls back to the primary layer and repaints
ReloadParse_resets ==
    /\ pc = "parse"
    /\ IF ~file.valid
       THEN /\ pc' = "clock"
            /\ active_layer' = config.primary_layer
            /\ needs_complete_redraw' = TRUE
            /\ UNCHANGED <<config, last_modified_time>>
       ELSE /\ config' = file.cfg
            /\ last_modified_time' = current_modified_time
            /\ pc' = "init"
            /\ UNCHANGED <<active_layer, needs_complete_redraw>>
    /\ out' = <<>>
    /\ clips' = <<>>
    /\ event' = <<>>
    /\ UNCHANGED <<width, filevars, current_modified_time, layers, digitizer,
                   touches, bl, fingers, nev, gvars>>

\* match Config::from_file(config_path)
ReloadParse ==
    /\ pc = "parse"
    /\ IF ~file.valid
       THEN /\ pc' = "clock"
            /\ UNCHANGED <<config, last_modified_time>>
       ELSE /\ config' = file.cfg
            /\ last_modified_time' = current_modified_time
            /\ pc' = "init"
    /\ out' = <<>>
    /\ clips' = <<>>
    /\ event' = <<>>
    /\ UNCHANGED <<width, filevars, current_modified_time, worldvars, bl,
                   fingers, nev, gvars>>

\* mutant: the rebuilt layers keep their first button on every panel
ReloadInit_no_removal ==
    /\ pc = "init"
    /\ IF ~file.valid
       THEN /\ pc' = "panic"
            /\ UNCHANGED <<layers, active_layer, needs_complete_redraw>>
       ELSE /\ layers' = initialize_layers
            /\ active_layer' = config.primary_layer
            /\ needs_complete_redraw' = TRUE
            /\ pc' = "clock"
    /\ out' = <<>>
    /\ clips' = <<>>
    /\ event' = <<>>
    /\ UNCHANGED <<width, filevars, config, last_modified_time,
                   current_modified_time, digitizer, touches, bl, fingers,
                   nev, gvars>>

\* layers = initialize_layers() (which reads and unwraps the file again),
\* narrow-panel removal, active_layer and needs_complete_redraw
ReloadInit ==
    /\ pc = "init"
    /\ IF ~file.valid
       THEN /\ pc' = "panic"
            /\ UNCHANGED <<layers, active_layer, needs_complete_redraw>>
       ELSE /\ layers' = RemoveFirstIfNarrow(width, initialize_layers)
            /\ active_layer' = config.primary_layer
            /\ needs_complete_redraw' = TRUE
            /\ pc' = "clock"
    /\ out' = <<>>
    /\ clips' = <<>>
    /\ event' = <<>>
    /\ UNCHANGED <<width, filevars, config, last_modified_time,
                   current_modified_time, digitizer, touches, bl, fingers,
                   nev, gvars>>

\* mutant: the index of the wide panel is used on every panel
ClockIndex_wide(w) == 6

\* the index marked changed while layer 2 or 3 is active
ClockIndex(w) == IF w < NarrowThreshold THEN 5 ELSE 6

ClockDirty ==
    /\ pc = "clock"
    /\ layers' = IF active_layer = 2 \/ active_layer = 3
                 THEN [layers EXCEPT
                         ![active_layer][ClockIndex(width) + 1].changed = TRUE]
                 ELSE layers
    /\ pc' = "render"
    /\ out' = <<>>
    /\ clips' = <<>>
    /\ event' = <<>>
    /\ UNCHANGED <<width, filevars, config, last_modified_time,
                   current_modified_time, active_layer,
                   needs_complete_redraw, digitizer, touches, bl, fingers,
                   nev, gvars>>

Render ==
    /\ pc = "render"
    /\ IF needs_complete_redraw \/ AnyChanged(layers[active_layer])
       THEN LET r == draw(layers[active_layer], width, Height,
                          needs_complete_redraw)
            IN  /\ layers' = [layers EXCEPT ![active_layer] = r.buttons]
                /\ clips' = r.clips
                /\ needs_complete_redraw' = FALSE
       ELSE /\ clips' = <<>>
            /\ UNCHANGED <<layers, needs_complete_redraw>>
    /\ pc' = "poll"
    /\ out' = <<>>
    /\ event' = <<>>
    /\ UNCHANGED <<width, filevars, config, last_modified_time,
                   current_modified_time, active_layer, digitizer, touches,
                   bl, fingers, nev, gvars>>

\* one event of the dispatch loop; level is current_bl() after
\* backlight.process_event(&event)
DispatchEvent(ev, level) ==
    /\ pc = "poll"
    /\ WellFormed(ev)
    /\ event' = <<ev, level>>
    /\ bl' = level
    /\ fingers' = FingersAfter(ev)
    /\ clips' = <<>>
    /\ CASE ev.type = "DeviceAdded" ->
              /\ digitizer' = IF NameContainsTouchBar(ev.dev)
                              THEN ev.dev ELSE digitizer
              /\ out' = <<>>
              /\ UNCHANGED <<active_layer, needs_complete_redraw, layers,
                             touches>>
         [] ev.type = "Keyboard" ->
              LET r == keyboard_key(ev.key, ev.key_state, config,
                                    active_layer, needs_complete_redraw)
              IN  /\ active_layer' = r.active_layer
                  /\ needs_complete_redraw' = r.needs_complete_redraw
                  /\ out' = <<>>
                  /\ UNCHANGED <<digitizer, layers, touches>>
         [] ev.type = "Touch" ->
              LET r == touch_event(ev, layers, active_layer, touches,
                                   digitizer, level, width, Height)
              IN  /\ layers' = r.layers
                  /\ touches' = r.touches
                  /\ out' = r.written
                  /\ UNCHANGED <<active_layer, needs_complete_redraw,
                                 digitizer>>
         [] OTHER ->
              /\ out' = <<>>
              /\ UNCHANGED worldvars
    /\ UNCHANGED <<width, filevars, config, last_modified_time,
                   current_modified_time, pc>>

Dispatch(ev, level) ==
    /\ nev < MaxInputs
    /\ nev' = nev + 1
    /\ DispatchEvent(ev, level)
    /\ UNCHANGED gvars

\* mutant: the iteration ends without the backlight update
EndDispatch_no_update ==
    /\ pc = "poll"
    /\ pc' = "reload"
    /\ out' = <<>>
    /\ clips' = <<>>
    /\ event' = <<>>
    /\ UNCHANGED <<width, filevars, config, last_modified_time,
                   current_modified_time, worldvars, bl, fingers, nev,
                   gvars>>

\* the event iterator is exhausted
EndDispatch ==
    /\ pc = "poll"
    /\ pc' = "backlight"
    /\ out' = <<>>
    /\ clips' = <<>>
    /\ event' = <<>>
    /\ UNCHANGED <<width, filevars, config, last_modified_time,
                   current_modified_time, worldvars, bl, fingers, nev,
                   gvars>>

\* backlight.update_backlight()
UpdateBacklight(level) ==
    /\ pc = "backlight"
    /\ bl' = level
    /\ pc' = "reload"
    /\ out' = <<>>
    /\ clips' = <<>>
    /\ event' = <<>>
    /\ UNCHANGED <<width, filevars, config, last_modified_time,
                   current_modified_time, worldvars, fingers, nev, gvars>>

Next ==
    \/ \E c \in FileContents : WriteFile(c)
    \/ ReloadCheck
    \/ ReloadParse
    \/ ReloadInit
    \/ ClockDirty
    \/ Render
    \/ \E ev \in Events(width), level \in ProcessEventLevels(bl) :
          Dispatch(ev, level)
    \/ EndDispatch
    \/ \E level \in UpdateBacklightLevels(bl) : UpdateBacklight(level)

Spec == Init /\ [][Next]_vars

\* ========================================================================
\* Properties
\* ========================================================================
Handled(type) == event # <<>> /\ event[1].type = type
Handled_(type) == event' # <<>> /\ event'[1].type = type

AllButtons(ls) == UNION {{<<l, i>> : i \in 1 .. Len(ls[l])} : l \in DOMAIN ls}

\* ------------------------------------------------------------------------
\* C2: in the events written to the virtual device every key event is
\* directly followed by one report event, and a report event is written
\* only directly after a key event.  `out` holds what one step writes, so the
\* stream is the concatenation of framed pieces.
\* ------------------------------------------------------------------------
Framed(stream) ==
    \A i \in 1 .. Len(stream) :
        /\ stream[i].type = "Key" =>
              /\ i < Len(stream)
              /\ stream[i + 1] = [type |-> "Synchronize", code |-> "Report",
                                  value |-> 0]
        /\ stream[i].type = "Synchronize" => i > 1 /\ stream[i - 1].type = "Key"

C2_KeyReportFraming == Framed(out)

C2_Witness == Len(out) = 2 /\ out[1].type = "Key" /\ out[1].value = 0

\* ------------------------------------------------------------------------
\* C3: a step that does not rebuild the layers flips the active flag of at
\* most one button; a flip sets the button's changed flag and writes exactly
\* one toggle of the button's action with value 1 for active and 0 for
\* inactive, and happens only while a touch event is handled; a step that
\* flips nothing writes nothing, and if it handles an event it leaves every
\* button as it was.
\* ------------------------------------------------------------------------
Flipped ==
    UNION {{<<l, i>> : i \in {j \in 1 .. Len(layers[l]) :
                                layers'[l][j].active # layers[l][j].active}} :
           l \in {k \in DOMAIN layers : layers'[k] # layers[k]}}

C3_SetActiveOnlyMutator ==
    [][pc # "init" =>
        /\ Cardinality(Flipped) <= 1
        /\ \A b \in Flipped :
              /\ Handled_("Touch")
              /\ layers'[b[1]][b[2]].changed
              /\ out' = <<[type |-> "Key", code |-> layers[b[1]][b[2]].action,
                           value |-> IF layers'[b[1]][b[2]].active
                                     THEN 1 ELSE 0],
                          [type |-> "Synchronize", code |-> "Report",
                           value |-> 0]>>
        /\ Flipped = {} =>
              /\ out' = <<>>
              /\ pc = "poll" => layers' = layers]_vars

C3_Witness ==
    /\ Handled("Touch")
    /\ event[1].kind = "Motion"
    /\ event[1].slot \in DOMAIN touches
    /\ out = <<>>
    /\ ~Gated(event[1].dev, digitizer, event[2])
    /\ ButtonAt(layers, touches[event[1].slot][1],
                touches[event[1].slot][2]).active

\* ------------------------------------------------------------------------
\* C4 (as claimed): an up event that is handled for a slot with a session
\* leaves the session's button inactive and the slot without a session.
\* ------------------------------------------------------------------------
UpHandled ==
    /\ Handled_("Touch")
    /\ event'[1].kind = "Up"
    /\ ~Gated(event'[1].dev, digitizer, event'[2])
    /\ event'[1].slot \in DOMAIN touches

C4_UpEndsSession ==
    [][UpHandled =>
        /\ ~ButtonAt(layers', touches[event'[1].slot][1],
                     touches[event'[1].slot][2]).active
        /\ event'[1].slot \notin DOMAIN touches']_vars

\* ------------------------------------------------------------------------
\* C5 (as claimed): after a change of the active layer no session refers to
\* a button of the layer that was active before.
\* ------------------------------------------------------------------------
C5_SessionsDroppedOnSwitch ==
    [][active_layer' # active_layer =>
        \A s \in DOMAIN touches' : touches'[s][1] # active_layer]_vars

\* C5 (amended): the touch table changes only when a touch-down that passes
\* the gate lands inside an actionable button of the active layer, and then
\* by recording that button for the slot; a change of the active layer
\* leaves the touch table as it is.
C5_SessionsOnlyByDown ==
    [][/\ touches' # touches =>
            /\ Handled_("Touch")
            /\ event'[1].kind = "Down"
            /\ ~(event'[1].dev # digitizer \/ event'[2] = 0)
            /\ \E btn \in 0 .. (Len(layers[active_layer]) - 1) :
                  /\ touches' = Insert(touches, event'[1].slot,
                                       <<active_layer, btn>>)
                  /\ button_hit(Len(layers[active_layer]), btn, width,
                                Height, event'[1].x, event'[1].y)
                  /\ layers[active_layer][btn + 1].action
                        \notin {"Unknown", "Time"}
       /\ active_layer' # active_layer => touches' = touches]_vars

C5_Witness ==
    /\ Handled("Keyboard")
    /\ \E s \in DOMAIN touches :
          /\ touches[s][1] # active_layer
          /\ s \in fingers
          /\ ButtonAt(layers, touches[s][1], touches[s][2]).active

\* ------------------------------------------------------------------------
\* C6: no button whose action is Key::Unknown or Key::Time is active, no
\* session refers to such a button and no key event written carries either
\* code.
\* ------------------------------------------------------------------------
Sentinels == {"Unknown", "Time"}

C6_SentinelsInert ==
    /\ \A b \in AllButtons(layers) :
          layers[b[1]][b[2]].action \in Sentinels
             => ~layers[b[1]][b[2]].active
    /\ \A s \in DOMAIN touches :
          layers[touches[s][1]][touches[s][2] + 1].action \notin Sentinels
    /\ \A i \in 1 .. Len(out) :
          out[i].type = "Key" => out[i].code \notin Sentinels

\* a touch-down passed the gate and hit a no-op or clock button
C6_Witness ==
    /\ Handled("Touch")
    /\ event[1].kind = "Down"
    /\ event[1].dev = digitizer
    /\ event[2] # 0
    /\ LET num == Len(layers[active_layer])
           btn == (event[1].x * num) \div width
       IN  /\ button_hit(num, btn, width, Height, event[1].x, event[1].y)
           /\ layers[active_layer][btn + 1].action = "Time"

\* ------------------------------------------------------------------------
\* C7: a touch event changes no button, session, active layer or redraw flag
\* and writes no event when the backlight level is zero, when its device is
\* not the recognized digitizer, when it is a motion or up for a slot
\* without a session, or when it is a down outside every button's hit
\* region.
\* ------------------------------------------------------------------------
OutsideEveryButton(x, y) ==
    \A i \in 0 .. (Len(layers[active_layer]) - 1) :
        ~button_hit(Len(layers[active_layer]), i, width, Height, x, y)

ToBeIgnored(te, level) ==
    \/ level = 0
    \/ te.dev # digitizer
    \/ te.kind \in {"Motion", "Up"} /\ te.slot \notin DOMAIN touches
    \/ te.kind = "Down" /\ OutsideEveryButton(te.x, te.y)

C7_IgnoredTouchChangesNothing ==
    [][Handled_("Touch") /\ ToBeIgnored(event'[1], event'[2]) =>
        /\ UNCHANGED <<layers, touches, active_layer, needs_complete_redraw>>
        /\ out' = <<>>]_vars

\* a down on the digitizer inside a button while the backlight is off
C7_Witness ==
    /\ Handled("Touch")
    /\ event[1].kind = "Down"
    /\ event[1].dev = digitizer
    /\ event[2] = 0
    /\ ~OutsideEveryButton(event[1].x, event[1].y)

\* ------------------------------------------------------------------------
\* C8: handling an Fn press leaves the configured secondary layer active,
\* handling an Fn release the configured primary layer, whatever layer was
\* active before.
\* ------------------------------------------------------------------------
C8_FnMomentary ==
    [][Handled_("Keyboard") /\ event'[1].key = "Fn" =>
        /\ event'[1].key_state = "Pressed" =>
              active_layer' = config.secondary_layer
        /\ event'[1].key_state = "Released" =>
              active_layer' = config.primary_layer]_vars

\* Fn is released while an auxiliary layer is shown
C8_Witness ==
    /\ Handled("Keyboard")
    /\ event[1].key = "Fn"
    /\ event[1].key_state = "Released"
    /\ active_layer = config.primary_layer
    /\ needs_complete_redraw
    /\ config.primary_layer # config.secondary_layer

\* ------------------------------------------------------------------------
\* C9: a Macro1 press makes layer 3 active, a Macro2 press layer 2, a Macro3
\* press layer 4, from any layer; a macro key release leaves the active
\* layer as it is.
\* ------------------------------------------------------------------------
C9_MacroFixedLayers ==
    [][Handled_("Keyboard") =>
        /\ event'[1].key = "Macro1" /\ event'[1].key_state = "Pressed"
              => active_layer' = 3
        /\ event'[1].key = "Macro2" /\ event'[1].key_state = "Pressed"
              => active_layer' = 2
        /\ event'[1].key = "Macro3" /\ event'[1].key_state = "Pressed"
              => active_layer' = 4
        /\ event'[1].key \in {"Macro1", "Macro2", "Macro3"}
              /\ event'[1].key_state = "Released"
              => active_layer' = active_layer]_vars

C9_Witness ==
    /\ Handled("Keyboard")
    /\ event[1].key = "Macro1"
    /\ event[1].key_state = "Released"
    /\ active_layer = 3

\* ------------------------------------------------------------------------
\* C10: a step that changes the active layer leaves the complete-redraw
\* flag set, the flag stays set until the render step, and a render step
\* that finds it set flushes exactly one rectangle, the whole surface; so
\* the first render after a layer change is never an incremental one.
\* ------------------------------------------------------------------------
C10_SwitchForcesFullRedraw ==
    [][/\ active_layer' # active_layer => needs_complete_redraw'
       /\ needs_complete_redraw /\ pc # "render" => needs_complete_redraw'
       /\ needs_complete_redraw /\ pc = "render" =>
             clips' = <<[x1 |-> 0, y1 |-> 0, x2 |-> Height, y2 |-> width]>>
      ]_vars

\* the complete redraw of a layer entered while one of its buttons was
\* marked changed
C10_Witness ==
    /\ pc = "poll"
    /\ clips = <<[x1 |-> 0, y1 |-> 0, x2 |-> Height, y2 |-> width]>>
    /\ active_layer # config.primary_layer
    /\ DOMAIN touches # {}

\* ========================================================================
\* The single-gesture scenario: one finger goes down on an actionable
\* button, moves inside it, moves off it, moves back and is lifted, while
\* the backlight stays lit; the loop runs and keyboard and device events
\* arrive before it and the Fn key is used during it.  g_log collects what is written to the virtual device
\* and the values the button's active flag takes.
\* ========================================================================
GPoints(w) == Points(w)

GButton == layers[g_slot[2]][g_slot[3] + 1]

GLogged(l, btn) ==
    g_log' = [stream |-> g_log.stream \o out',
              act |-> g_log.act \o
                      (IF layers'[l][btn + 1].active # layers[l][btn + 1].active
                       THEN <<layers'[l][btn + 1].active>> ELSE <<>>)]

GDown ==
    /\ g_phase = 0
    /\ bl # 0
    /\ \E slot \in Slots, p \in GPoints(width) :
          LET num == Len(layers[active_layer])
              btn == CandidateButton(num, width, p[1])
          IN  /\ button_hit(num, btn, width, Height, p[1], p[2])
              /\ ~Inert(ButtonAt(layers, active_layer, btn))
              /\ DispatchEvent(TouchEvent("Down", "tb", slot, p), bl)
              /\ g_slot' = <<slot, active_layer, btn>>
              /\ GLogged(active_layer, btn)
    /\ g_phase' = 1
    /\ UNCHANGED <<nev, probe, inputs>>

\* phases 1 and 3 move inside the button, phase 2 moves off it
GMotion ==
    /\ g_phase \in {1, 2, 3}
    /\ \E p \in GPoints(width) :
          /\ button_hit(Len(layers[g_slot[2]]), g_slot[3], width, Height,
                        p[1], p[2]) = (g_phase # 2)
          /\ DispatchEvent(TouchEvent("Motion", "tb", g_slot[1], p), bl)
    /\ GLogged(g_slot[2], g_slot[3])
    /\ g_phase' = g_phase + 1
    /\ UNCHANGED <<g_slot, nev, probe, inputs>>

GUp ==
    /\ g_phase = 4
    /\ DispatchEvent(TouchEvent("Up", "tb", g_slot[1], <<0, 0>>), bl)
    /\ GLogged(g_slot[2], g_slot[3])
    /\ g_phase' = 5
    /\ UNCHANGED <<g_slot, nev, probe, inputs>>

\* before the gesture: any device or keyboard event
GOther ==
    /\ g_phase = 0
    /\ \E ev \in DeviceEvents \cup KeyboardEvents \cup OtherEvents :
          DispatchEvent(ev, bl)
    /\ UNCHANGED <<gvars, nev>>

\* during the gesture: the Fn key
GFn ==
    /\ g_phase \in 1 .. 4
    /\ \E key_state \in {"Pressed", "Released"} :
          DispatchEvent([type |-> "Keyboard", key |-> "Fn",
                         key_state |-> key_state], bl)
    /\ UNCHANGED <<gvars, nev>>

GUpdateBacklight == \E level \in BacklightLevels \ {0} : UpdateBacklight(level)

GestureNext ==
    \/ ReloadCheck
    \/ ClockDirty
    \/ Render
    \/ EndDispatch
    \/ GUpdateBacklight
    \/ GOther
    \/ GFn
    \/ GDown
    \/ GMotion
    \/ GUp

SpecGesture == Init /\ [][GestureNext]_vars

\* ------------------------------------------------------------------------
\* C1: the gesture makes the button's active flag take exactly the values
\* true, false, true, false and writes exactly four toggles of the button's
\* key with values 1, 0, 1, 0, each a key event followed by a report event.
\* ------------------------------------------------------------------------
GKey(value) == [type |-> "Key", code |-> GButton.action, value |-> value]
GReport == [type |-> "Synchronize", code |-> "Report", value |-> 0]

C1_GestureTogglesFourTimes ==
    g_phase = 5 =>
        /\ g_log.act = <<TRUE, FALSE, TRUE, FALSE>>
        /\ g_log.stream = <<GKey(1), GReport, GKey(0), GReport,
                            GKey(1), GReport, GKey(0), GReport>>

\* the gesture is complete, on a layer that is no longer the active one
C1_Witness ==
    /\ g_phase = 5
    /\ g_slot[2] # active_layer

\* ------------------------------------------------------------------------
\* C11 (as claimed): once the changed file has parsed, the reload rebuilds
\* the five layers (less the first button on a narrow panel), makes the
\* newly configured primary layer the active one and sets the
\* complete-redraw flag, and the loop goes on to the render step.
\* ------------------------------------------------------------------------
C11_ReloadRebuildsLayers ==
    [][pc = "init" /\ UNCHANGED filevars =>
        /\ layers' = RemoveFirstIfNarrow(width, initialize_layers)
        /\ active_layer' = config.primary_layer
        /\ needs_complete_redraw'
        /\ pc' = "clock"]_vars

\* ------------------------------------------------------------------------
\* C12: when Config::from_file fails on the changed file, the step leaves
\* the configuration, every button of every layer, the active layer, the
\* touch table and the complete-redraw flag as they were, and the loop goes
\* on to the clock and render steps; the recorded modification time is left
\* as it was too, so the next iteration tries again.
\* ------------------------------------------------------------------------
C12_FailedReloadChangesNothing ==
    [][pc = "parse" /\ ~file.valid /\ UNCHANGED filevars =>
        /\ UNCHANGED <<config, layers, active_layer, touches,
                       needs_complete_redraw, last_modified_time>>
        /\ pc' = "clock"]_vars

\* a reload has just failed while a session's button is held and no
\* complete redraw is pending
C12_Witness ==
    /\ pc = "clock"
    /\ ~file.valid
    /\ current_modified_time # last_modified_time
    /\ ~needs_complete_redraw
    /\ \E s \in DOMAIN touches :
          ButtonAt(layers, touches[s][1], touches[s][2]).active

\* ========================================================================
\* button_hit on its own: the arguments are drawn in the initial state and
\* one step applies the function.
\* ========================================================================
HitYS(h) == {0, (9 * h) \div 100, (9 * h) \div 100 + 1,
             (91 * h) \div 100, (91 * h) \div 100 + 1}

HitXS(w) == {k * HitXStep : k \in 0 .. (w \div HitXStep)} \cup {w}

HitArgs(w, h) ==
    UNION {[num : {num}, idx : 0 .. (num - 1), width : {w}, height : {h},
            x : HitXS(w), y : HitYS(h), done : {FALSE}, hit : {FALSE},
            btn : {0}, btn_hit : {FALSE}] :
           num \in 2 .. MaxNum}

HitInit ==
    /\ width \in Widths
    /\ probe \in HitArgs(width, Height)
    /\ file = FileOf([primary_layer |-> 0, secondary_layer |-> 1])
    /\ file_mtime = 0
    /\ config = file.cfg
    /\ last_modified_time = 0
    /\ current_modified_time = 0
    /\ active_layer = config.primary_layer
    /\ layers = RemoveFirstIfNarrow(width, initialize_layers)
    /\ needs_complete_redraw = TRUE
    /\ digitizer = None
    /\ touches = <<>>
    /\ bl = 1
    /\ fingers = {}
    /\ pc = "reload"
    /\ nev = 0
    /\ out = <<>>
    /\ clips = <<>>
    /\ g_phase = 0
    /\ g_slot = <<>>
    /\ g_log = [stream |-> <<>>, act |-> <<>>]
    /\ inputs = <<>>
    /\ event = <<>>

HitApply ==
    /\ ~probe.done
    /\ probe' = [probe EXCEPT
                    !.done = TRUE,
                    !.hit = button_hit(probe.num, probe.idx, probe.width,
                                       probe.height, probe.x, probe.y),
                    !.btn = CandidateButton(probe.num, probe.width, probe.x),
                    !.btn_hit = button_hit(probe.num,
                                           CandidateButton(probe.num,
                                                           probe.width,
                                                           probe.x),
                                           probe.width, probe.height,
                                           probe.x, probe.y)]
    /\ UNCHANGED <<width, filevars, config, last_modified_time,
                   current_modified_time, worldvars, bl, fingers, pc, nev,
                   out, clips, g_phase, g_slot, g_log, inputs, event>>

HitNext == HitApply

SpecHit == HitInit /\ [][HitNext]_vars

\* ------------------------------------------------------------------------
\* C13: with bw = width/(N+1) and sp = (width - N*bw)/(N-1), for every
\* N >= 2 and i < N button_hit is true for every point strictly between
\* i*(bw+sp) and i*(bw+sp)+bw whose y lies strictly between 0.09*height and
\* 0.91*height, and false for every point strictly between the right edge of
\* one cell and the left edge of the next, and for every point whose y is
\* not strictly inside that band.  The bounds are compared after
\* multiplying by (N+1)*(N-1), which keeps them whole numbers.
\* ------------------------------------------------------------------------
CellD(num) == (num + 1) * (num - 1)
\* bw and sp times (N+1)*(N-1)
CellBwD(num, w) == (w * CellD(num)) \div (num + 1)
CellSpD(num, w) == (w * CellD(num) - num * CellBwD(num, w)) \div (num - 1)
CellLeftD(num, i, w) == i * (CellBwD(num, w) + CellSpD(num, w))

InsideCell(num, i, w, x) ==
    /\ x * CellD(num) > CellLeftD(num, i, w)
    /\ x * CellD(num) < CellLeftD(num, i, w) + CellBwD(num, w)

InGap(num, w, x) ==
    \E j \in 0 .. (num - 2) :
        /\ x * CellD(num) > CellLeftD(num, j, w) + CellBwD(num, w)
        /\ x * CellD(num) < CellLeftD(num, j + 1, w)

InBand(h, y) == 100 * y > 9 * h /\ 100 * y < 91 * h

C13_HitTestCells ==
    probe.done =>
        /\ InsideCell(probe.num, probe.idx, probe.width, probe.x)
              /\ InBand(probe.height, probe.y) => probe.hit
        /\ InGap(probe.num, probe.width, probe.x) => ~probe.hit
        /\ ~InBand(probe.height, probe.y) => ~probe.hit

\* the last cell of a 14-button layer is hit just inside the band
C13_Witness ==
    /\ probe.done
    /\ probe.hit
    /\ probe.num = 14
    /\ probe.idx = 13
    /\ probe.y = (9 * probe.height) \div 100 + 1

\* ------------------------------------------------------------------------
\* C14: a step changes the active layer index only if it handles an Fn key
\* event or a press of Macro1, Macro2 or Macro3, or if it is the rebuild of
\* a reload whose file parsed; a step that handles a touch event, another
\* keyboard event, a device event or any other event, a reload step whose
\* file does not parse, and the clock and render steps leave it unchanged.
\* ------------------------------------------------------------------------
LayerSwitchKey(ev) ==
    /\ ev.type = "Keyboard"
    /\ \/ ev.key = "Fn"
       \/ ev.key \in {"Macro1", "Macro2", "Macro3"}
             /\ ev.key_state = "Pressed"

C14_LayerChangesOnlyByKeysOrReload ==
    [][/\ active_layer' # active_layer =>
             \/ event' # <<>> /\ LayerSwitchKey(event'[1])
             \/ pc = "init" /\ pc' = "clock" /\ file.valid
       /\ event' # <<>> /\ ~LayerSwitchKey(event'[1]) =>
             active_layer' = active_layer
       /\ pc \in {"parse", "clock", "render", "backlight"} =>
             active_layer' = active_layer]_vars

\* a touch-down is handled and starts a session on a layer that is neither
\* the configured primary nor the configured secondary one
C14_Witness ==
    /\ Handled("Touch")
    /\ event[1].kind = "Down"
    /\ out # <<>>
    /\ active_layer \notin {config.primary_layer, config.secondary_layer}

\* ------------------------------------------------------------------------
\* C15: the loop body goes through its steps in the order reload (check,
\* parse, rebuild), clock, render and flush, poll and dispatch, backlight
\* update, and then starts over, the backlight update being a single step
\* after the last dispatched event.  An active flag flips only in a
\* dispatch step, which writes the toggle in that same step and marks the
\* button changed; the mark is taken away only by a later render step (or
\* by the rebuild of a reload), and a render step flips no active flag and
\* writes no key event, so what it paints was emitted before.
\* ------------------------------------------------------------------------
StepOrder ==
    {<<"reload", "parse">>, <<"reload", "clock">>, <<"parse", "init">>,
     <<"parse", "clock">>, <<"init", "clock">>, <<"init", "panic">>,
     <<"clock", "render">>, <<"render", "poll">>, <<"poll", "backlight">>,
     <<"backlight", "reload">>}

C15_IterationOrder ==
    [][/\ pc' # pc => <<pc, pc'>> \in StepOrder
       /\ pc' = pc => pc \in {"reload", "parse", "init", "poll"}
       /\ pc' = pc /\ pc = "poll" <=> event' # <<>>
       /\ pc # "init" /\ Flipped # {} =>
             /\ pc = "poll"
             /\ out' # <<>>
             /\ \A b \in Flipped : layers'[b[1]][b[2]].changed
       /\ pc # "init" =>
             \A l \in DOMAIN layers : \A i \in 1 .. Len(layers[l]) :
                layers[l][i].changed /\ ~layers'[l][i].changed =>
                    pc = "render" /\ l = active_layer
       /\ pc = "render" => Flipped = {} /\ out' = <<>>]_vars

\* a render step has just painted, alone, a button that a touch made active
C15_Witness ==
    /\ pc = "poll"
    /\ event = <<>>
    /\ Len(clips) = 1
    /\ ~needs_complete_redraw
    /\ \E s \in DOMAIN touches :
          /\ touches[s][1] = active_layer
          /\ ButtonAt(layers, touches[s][1], touches[s][2]).active
          /\ ~ButtonAt(layers, touches[s][1], touches[s][2]).changed
          /\ clips[1] = ButtonClip(layers[active_layer], touches[s][2],
                                   width, Height)

\* ========================================================================
\* The two-source scenario: after poll() each libinput context holds a
\* sequence of events; the loop goes through the touch-bar context's events
\* and then the main context's, giving each to backlight.process_event and
\* then to the match.  The two halves of the loop body are separate steps.
\* ========================================================================
TbSourceEvents ==
    {[type |-> "DeviceAdded", dev |-> "tb"],
     TouchEvent("Down", "tb", 0, <<0, Height \div 2>>),
     TouchEvent("Motion", "tb", 0, <<XStep, Height \div 2>>),
     TouchEvent("Up", "tb", 0, <<0, 0>>)}

MainSourceEvents ==
    {[type |-> "DeviceAdded", dev |-> "kbd"],
     [type |-> "Keyboard", key |-> "Fn", key_state |-> "Pressed"],
     [type |-> "Keyboard", key |-> "Fn", key_state |-> "Released"],
     [type |-> "Keyboard", key |-> "Macro1", key_state |-> "Pressed"],
     TouchEvent("Down", "kbd", 0, <<0, Height \div 2>>),
     [type |-> "Pointer"]}

Min(a, b) == IF a < b THEN a ELSE b

\* WellFormed along a whole sequence
RECURSIVE WellFormedFrom(_, _, _)
WellFormedFrom(seq, dig, fing) ==
    IF seq = <<>> THEN TRUE
    ELSE LET ev == Head(seq)
             tb == ev.type = "Touch" /\ ev.dev = "tb"
         IN  /\ tb => /\ dig = "tb"
                      /\ ev.kind = "Down" => ev.slot \notin fing
                      /\ ev.kind \in {"Motion", "Up"} => ev.slot \in fing
             /\ WellFormedFrom(
                    Tail(seq),
                    IF ev.type = "DeviceAdded" /\ NameContainsTouchBar(ev.dev)
                    THEN ev.dev ELSE dig,
                    IF tb /\ ev.kind = "Down" THEN fing \cup {ev.slot}
                    ELSE IF tb /\ ev.kind = "Up" THEN fing \ {ev.slot}
                    ELSE fing)

\* mutant: the main context's events are gone through first
Chain_main_first(tb, main) == main \o tb

\* input_tb.clone().chain(input_main.clone())
Chain(tb, main) == tb \o main

NoInputs == [polled |-> FALSE, tb |-> <<>>, main |-> <<>>, n |-> 0,
             forwarded |-> <<>>, handled |-> <<>>]

SourcesInit ==
    /\ width \in Widths
    /\ file \in FileContents \ {Bad}
    /\ file_mtime = 0
    /\ config = file.cfg
    /\ last_modified_time = 0
    /\ current_modified_time = 0
    /\ active_layer = config.primary_layer
    /\ layers = RemoveFirstIfNarrow(width, initialize_layers)
    /\ needs_complete_redraw = TRUE
    /\ digitizer = None
    /\ touches = <<>>
    /\ bl \in BacklightLevels
    /\ fingers = {}
    /\ pc = "reload"
    /\ nev = 0
    /\ out = <<>>
    /\ clips = <<>>
    /\ g_phase = 0
    /\ g_slot = <<>>
    /\ g_log = [stream |-> <<>>, act |-> <<>>]
    /\ probe = <<>>
    /\ inputs = NoInputs
    /\ event = <<>>

\* poll(), input_tb.dispatch(), input_main.dispatch()
SPoll ==
    /\ pc = "poll"
    /\ ~inputs.polled
    /\ \E a \in 0 .. Min(MaxQueue, MaxInputs - nev) :
       \E b \in 0 .. Min(MaxQueue, MaxInputs - nev - a) :
       \E tb \in [1 .. a -> TbSourceEvents],
          main \in [1 .. b -> MainSourceEvents] :
          /\ WellFormedFrom(Chain(tb, main), digitizer, fingers)
          /\ nev' = nev + a + b
          /\ inputs' = [NoInputs EXCEPT !.polled = TRUE, !.tb = tb,
                                        !.main = main]
    /\ out' = <<>>
    /\ clips' = <<>>
    /\ event' = <<>>
    /\ UNCHANGED <<width, filevars, config, last_modified_time,
                   current_modified_time, worldvars, bl, fingers, pc,
                   g_phase, g_slot, g_log, probe>>

\* the iterator yields its next event; backlight.process_event(&event)
SForward ==
    /\ pc = "poll"
    /\ inputs.polled
    /\ Len(inputs.handled) = inputs.n
    /\ inputs.n < Len(Chain(inputs.tb, inputs.main))
    /\ inputs' = [inputs EXCEPT
                     !.n = @ + 1,
                     !.forwarded =
                        Append(@, Chain(inputs.tb, inputs.main)[inputs.n + 1])]
    /\ bl' \in ProcessEventLevels(bl)
    /\ out' = <<>>
    /\ clips' = <<>>
    /\ event' = <<>>
    /\ UNCHANGED <<width, filevars, config, last_modified_time,
                   current_modified_time, worldvars, fingers, pc, nev,
                   g_phase, g_slot, g_log, probe>>

\* match event { ... }
SHandle ==
    /\ inputs.polled
    /\ Len(inputs.handled) < inputs.n
    /\ DispatchEvent(Chain(inputs.tb, inputs.main)[inputs.n], bl)
    /\ inputs' = [inputs EXCEPT
                     !.handled =
                        Append(@, Chain(inputs.tb, inputs.main)[inputs.n])]
    /\ UNCHANGED <<nev, g_phase, g_slot, g_log, probe>>

\* the chained iterator is exhausted
SEnd ==
    /\ pc = "poll"
    /\ inputs.polled
    /\ Len(inputs.handled) = inputs.n
    /\ inputs.n = Len(Chain(inputs.tb, inputs.main))
    /\ pc' = "backlight"
    /\ inputs' = [inputs EXCEPT !.polled = FALSE]
    /\ out' = <<>>
    /\ clips' = <<>>
    /\ event' = <<>>
    /\ UNCHANGED <<width, filevars, config, last_modified_time,
                   current_modified_time, worldvars, bl, fingers, nev,
                   g_phase, g_slot, g_log, probe>>

SUpdateBacklight == \E level \in UpdateBacklightLevels(bl) : UpdateBacklight(level)

SourcesNext ==
    \/ ReloadCheck
    \/ ClockDirty
    \/ Render
    \/ SPoll
    \/ SForward
    \/ SHandle
    \/ SEnd
    \/ SUpdateBacklight

SpecSources == SourcesInit /\ [][SourcesNext]_vars

\* ------------------------------------------------------------------------
\* C16: in every iteration the events given to backlight.process_event are,
\* in order, the events the touch-bar context yielded followed by the
\* events the main context yielded, each one once; the events that have
\* gone through the match are the same sequence, at most one event behind
\* (so an event reaches the match only after it was forwarded, and the
\* event being matched is the one forwarded last); a touch event that the
\* gate then discards has been forwarded like any other; and when the
\* dispatch loop is over every yielded event has been forwarded and
\* matched.
\* ------------------------------------------------------------------------
Prefix(seq, n) == SubSeq(seq, 1, n)

C16_ForwardedThenHandled ==
    LET yielded == inputs.tb \o inputs.main
        nf == Len(inputs.forwarded)
        nh == Len(inputs.handled)
    IN  /\ nf <= Len(yielded)
        /\ inputs.forwarded = Prefix(yielded, nf)
        /\ nh \in {nf - 1, nf} \cap Nat
        /\ inputs.handled = Prefix(inputs.forwarded, nh)
        /\ event # <<>> => nh = nf /\ nh > 0 /\ event[1] = inputs.handled[nh]
        /\ pc # "poll" => nf = Len(yielded) /\ nh = nf

\* a touch-down of the digitizer was forwarded and then discarded because
\* the backlight is off, while the main context still holds an event
C16_Witness ==
    /\ Handled("Touch")
    /\ event[1].dev = "tb"
    /\ event[1].kind = "Down"
    /\ event[2] = 0
    /\ touches = <<>>
    /\ inputs.forwarded = inputs.tb
    /\ inputs.main # <<>>

\* ------------------------------------------------------------------------
\* C17: in every state, and so in every state the render step and the hit
\* test see, on a panel narrower than 2170 the actions of each of the five
\* layers are its standard list without the first entry, and on a panel of
\* width 2170 or more they are the standard list; this holds from startup
\* and again after every reload.
\* ------------------------------------------------------------------------
ActionsOf(buttons) == [i \in 1 .. Len(buttons) |-> buttons[i].action]

C17_NarrowPanelDropsFirstButton ==
    /\ DOMAIN layers = 0 .. 4
    /\ \A l \in 0 .. 4 :
          ActionsOf(layers[l]) =
             IF width < 2170
             THEN SubSeq(LayerKeys[l], 2, Len(LayerKeys[l]))
             ELSE LayerKeys[l]

\* the render step of an iteration that reloaded on a narrow panel
C17_Witness ==
    /\ pc = "render"
    /\ width < 2170
    /\ last_modified_time > 0
    /\ needs_complete_redraw
    /\ layers[0][1].action = "F1"

\* ------------------------------------------------------------------------
\* C18 (as claimed): a touch-down that passes the gate and lands inside
\* actionable, inactive button i of the active layer, within the band,
\* records (active layer, i) for its slot, makes button i active and writes
\* one press of its key; and an incremental render pass returns, for every
\* actionable button i it repaints, a clip rectangle that runs along the
\* strip from the left edge of cell i to that edge plus the button width.
\* ------------------------------------------------------------------------
C18_DownStartsSession ==
    Handled_("Touch") /\ event'[1].kind = "Down"
        /\ ~(event'[1].dev # digitizer \/ event'[2] = 0) =>
    \A i \in 0 .. (Len(layers[active_layer]) - 1) :
        /\ InsideCell(Len(layers[active_layer]), i, width, event'[1].x)
        /\ InBand(Height, event'[1].y)
        /\ layers[active_layer][i + 1].action \notin {"Unknown", "Time"}
        /\ ~layers[active_layer][i + 1].active
        => /\ touches' = Insert(touches, event'[1].slot, <<active_layer, i>>)
           /\ layers'[active_layer][i + 1].active
           /\ out' = <<[type |-> "Key",
                        code |-> layers[active_layer][i + 1].action,
                        value |-> 1],
                       [type |-> "Synchronize", code |-> "Report",
                        value |-> 0]>>

C18_ClipIsCell ==
    pc = "render" /\ ~needs_complete_redraw =>
    \A i \in 0 .. (Len(layers[active_layer]) - 1) :
        /\ layers[active_layer][i + 1].changed
        /\ layers[active_layer][i + 1].action \notin {"Unknown", "Time"}
        => \E k \in DOMAIN clips' :
              LET num == Len(layers[active_layer])
              IN  /\ clips'[k].y1 * CellD(num) = CellLeftD(num, i, width)
                  /\ clips'[k].y2 * CellD(num) =
                        CellLeftD(num, i, width) + CellBwD(num, width)

C18_DownThenClipMatchesCell ==
    [][C18_DownStartsSession /\ C18_ClipIsCell]_vars

\* ========================================================================
\* The layer scenario: every pair of configured layers, keyboard events and
\* rewrites of the configuration file, without touch input.
\* ========================================================================
AllConfigs == [primary_layer : LayerType, secondary_layer : LayerType]

AllFileContents == {FileOf(cfg) : cfg \in AllConfigs} \cup {Bad}

LayersInit ==
    /\ width \in Widths
    /\ file \in AllFileContents \ {Bad}
    /\ file_mtime = 0
    /\ config = file.cfg
    /\ last_modified_time = 0
    /\ current_modified_time = 0
    /\ active_layer = config.primary_layer
    /\ layers = RemoveFirstIfNarrow(width, initialize_layers)
    /\ needs_complete_redraw = TRUE
    /\ digitizer = None
    /\ touches = <<>>
    /\ bl = 1
    /\ fingers = {}
    /\ pc = "reload"
    /\ nev = 0
    /\ out = <<>>
    /\ clips = <<>>
    /\ g_phase = 0
    /\ g_slot = <<>>
    /\ g_log = [stream |-> <<>>, act |-> <<>>]
    /\ probe = <<>>
    /\ inputs = <<>>
    /\ event = <<>>

LWriteFile == \E c \in AllFileContents : WriteFile(c)

LKeyboard == \E ev \in KeyboardEvents : Dispatch(ev, bl)

LUpdateBacklight == UpdateBacklight(bl)

LayersNext ==
    \/ LWriteFile
    \/ ReloadCheck
    \/ ReloadParse
    \/ ReloadInit
    \/ ClockDirty
    \/ Render
    \/ LKeyboard
    \/ EndDispatch
    \/ LUpdateBacklight

SpecLayers == LayersInit /\ [][LayersNext]_vars

\* ------------------------------------------------------------------------
\* C19: in every state the active layer index is one of 0..4 and is an
\* index of the layer array, which holds five non-empty layers, whatever
\* primary and secondary layers are configured and whatever Fn, macro and
\* other key events and reloads have happened.
\* ------------------------------------------------------------------------
C19_ActiveLayerInRange ==
    /\ active_layer \in 0 .. 4
    /\ DOMAIN layers = 0 .. 4
    /\ active_layer \in DOMAIN layers
    /\ Len(layers[active_layer]) > 0

\* the third macro layer is shown after a reload to a configuration whose
\* primary layer is the special one and whose secondary is the extended one
C19_Witness ==
    /\ active_layer = 4
    /\ last_modified_time > 0
    /\ config = [primary_layer |-> 1, secondary_layer |-> 2]

\* ------------------------------------------------------------------------
\* C20: a render step with no complete redraw pending flushes exactly the
\* rectangles of the buttons of the active layer that are marked changed
\* when it starts, one each, in the order of the buttons, and nothing at
\* all when none is marked; every render step leaves no button of the
\* active layer marked, leaves the buttons otherwise as they were and leaves
\* the other layers alone; and no other step takes a mark away (the rebuild
\* of a reload replaces the buttons).
\* ------------------------------------------------------------------------
DirtyButtons(buttons) ==
    SelectSeq([i \in 1 .. Len(buttons) |-> i],
              LAMBDA i : buttons[i].changed)

C20_IncrementalRenderFlushesDirtyButtons ==
    [][/\ pc = "render" =>
             LET buttons == layers[active_layer]
                 dirty == DirtyButtons(buttons)
             IN  /\ ~needs_complete_redraw =>
                       clips' = [k \in 1 .. Len(dirty) |->
                                   ButtonClip(buttons, dirty[k] - 1, width,
                                              Height)]
                 /\ ~needs_complete_redraw /\ dirty = <<>> =>
                       clips' = <<>> /\ layers' = layers
                 /\ layers' =
                       [layers EXCEPT ![active_layer] =
                          [i \in 1 .. Len(buttons) |->
                             [buttons[i] EXCEPT !.changed = FALSE]]]
       /\ pc \notin {"render", "init"} =>
             /\ clips' = <<>>
             /\ \A l \in DOMAIN layers : \A i \in 1 .. Len(layers[l]) :
                   layers[l][i].changed => layers'[l][i].changed]_vars

\* an incremental render step has just flushed two rectangles, the one of a
\* touched button and the clock's, in the order of the buttons
C20_Witness ==
    /\ pc = "poll"
    /\ event = <<>>
    /\ Len(clips) = 2
    /\ clips[1].y1 < clips[2].y1
    /\ active_layer \in {2, 3}
    /\ \E s \in DOMAIN touches :
          /\ touches[s][1] = active_layer
          /\ ButtonAt(layers, touches[s][1], touches[s][2]).active

\* ------------------------------------------------------------------------
\* C21: the step before the render step marks changed exactly the clock
\* buttons of the active layer that are not marked yet, and nothing else,
\* so it changes no layer without a clock; a render step that starts on a
\* layer with a clock finds the clock marked, flushes the whole surface or
\* a list of rectangles that holds the clock's, and leaves the clock
\* unmarked.  This holds on both panels and after reloads.
\* ------------------------------------------------------------------------
Clocks(buttons) == {i \in 1 .. Len(buttons) : buttons[i].action = "Time"}

C21_ClockMarkedEveryIteration ==
    [][/\ pc = "clock" =>
             layers' = [layers EXCEPT ![active_layer] =
                          [i \in 1 .. Len(layers[active_layer]) |->
                             IF i \in Clocks(layers[active_layer])
                             THEN [layers[active_layer][i]
                                     EXCEPT !.changed = TRUE]
                             ELSE layers[active_layer][i]]]
       /\ pc = "render" =>
             \A i \in Clocks(layers[active_layer]) :
                /\ layers[active_layer][i].changed
                /\ ~layers'[active_layer][i].changed
                /\ \/ clips' = <<[x1 |-> 0, y1 |-> 0, x2 |-> Height,
                                   y2 |-> width]>>
                   \/ \E k \in DOMAIN clips' :
                         clips'[k] = ButtonClip(layers[active_layer], i - 1,
                                                width, Height)]_vars

\* on a narrow panel, after a reload, an incremental render step has just
\* repainted the clock alone
C21_Witness ==
    /\ pc = "poll"
    /\ event = <<>>
    /\ width < NarrowThreshold
    /\ last_modified_time > 0
    /\ active_layer \in {2, 3}
    /\ Len(clips) = 1
    /\ \E i \in Clocks(layers[active_layer]) :
          clips[1] = ButtonClip(layers[active_layer], i - 1, width, Height)

\* ------------------------------------------------------------------------
\* C22: a reload attempt never terminates the process, and after it the
\* configuration and the layers are both new or both unchanged, whatever
\* another process does to the file during the attempt: the loop is never
\* past a replaced configuration with the layers not rebuilt and the
\* process dead.
\* ------------------------------------------------------------------------
\* the state after the unwrap in initialize_layers has failed: config is
\* the new one, layers are the old ones, the process is gone
ReloadTornDown == pc = "panic"

C22_ReloadIsAtomic == ~ReloadTornDown

\* ------------------------------------------------------------------------
\* C26 (as claimed): for every N >= 2 and every x in [0, width], with btn
\* the candidate index computed from x on a down event: if button_hit
\* accepts btn then btn < N; if the point is inside the hit region of cell
\* idx then btn = idx; and no other cell's hit region holds the point.
\* ------------------------------------------------------------------------
CandidateAgrees ==
    /\ probe.btn_hit => probe.btn < probe.num
    /\ probe.hit =>
          /\ probe.btn = probe.idx
          /\ \A j \in 0 .. (probe.num - 1) :
                button_hit(probe.num, j, probe.width, probe.height,
                           probe.x, probe.y) => j = probe.idx

C26_CandidateAgreesWithHit == probe.done => CandidateAgrees

\* C26 (amended): the same for every x in [0, width); at x = width the
\* candidate is N, which button_hit rejects, so nothing is accessed out of
\* range, but the point on the right edge of the last cell is not hit.
C26_CandidateAgreesBelowWidth ==
    probe.done =>
       /\ probe.x < probe.width => CandidateAgrees
       /\ probe.x = probe.width => probe.btn = probe.num /\ ~probe.btn_hit

\* a point inside the last of 13 cells, away from its left edge, is hit
\* and is the candidate's
C26_Witness ==
    /\ probe.done
    /\ probe.num = 13
    /\ probe.idx = 12
    /\ probe.hit
    /\ probe.btn_hit
    /\ probe.btn = 12
    /\ probe.x * 13 > 12 * probe.width + 13 * HitXStep

\* ========================================================================
\* The copy into the framebuffer on its own: a small surface, a framebuffer
\* pitch and one clip rectangle are drawn in the initial state and one step
\* runs the copy loop.
\* ========================================================================
\* panel height of the small surface, in pixels
FlushHeight == 2
\* panel width of the small surface, in pixels
FlushWidth == 4
\* most padding pixels at the end of a framebuffer row
MaxPad == 2

\* fb_info.bpp() / 8 of the sampled framebuffers
Cpps == {4}
\* fb_info.pitch() of the sampled framebuffers
Pitches(h, cpp) == {(h + pad) * cpp : pad \in 0 .. MaxPad}

\* ImageSurface::create(Format::ARgb32, height, width): rows of `height`
\* pixels of four bytes, `width` rows
SurfaceStride(h) == 4 * h

\* surface.data(): the element at byte offset k is the byte of row
\* k / stride at byte column k % stride
SurfaceData(h, w) ==
    [k \in 1 .. (SurfaceStride(h) * w) |->
       <<(k - 1) \div SurfaceStride(h), (k - 1) % SurfaceStride(h)>>]

\* drm.map(): pitch bytes for each of the w rows, nothing copied yet
MappedFb(pitch, w) == [k \in 1 .. (pitch * w) |-> <<>>]

\* a slice index out of range: no framebuffer any more
Panicked == <<"panic">>

\* fb.as_mut()[range.clone()].copy_from_slice(&data[range])
copy_row(fb, data, offset, len) ==
    IF fb = Panicked \/ offset + len > Len(fb) \/ offset + len > Len(data)
    THEN Panicked
    ELSE [k \in 1 .. Len(fb) |->
            IF k - 1 >= offset /\ k - 1 < offset + len THEN data[k]
            ELSE fb[k]]

\* for i in 0..(clip.y2 - clip.y1), from row i on
RECURSIVE copy_rows(_, _, _, _, _, _, _)
copy_rows(fb, data, base_offset, len, pitch, i, n) ==
    IF i >= n THEN fb
    ELSE copy_rows(copy_row(fb, data, base_offset + i * pitch, len), data,
                   base_offset, len, pitch, i + 1, n)

\* for clip in &clips, from clip k on
RECURSIVE flush(_, _, _, _, _, _)
flush(fb, data, cs, pitch, cpp, k) ==
    IF k > Len(cs) THEN fb
    ELSE flush(copy_rows(fb, data,
                         cs[k].y1 * pitch + cs[k].x1 * cpp,
                         (cs[k].x2 - cs[k].x1) * cpp,
                         pitch, 0, cs[k].y2 - cs[k].y1),
               data, cs, pitch, cpp, k + 1)

FlushClips(h, w) ==
    {c \in [x1 : 0 .. h, y1 : 0 .. w, x2 : 0 .. h, y2 : 0 .. w] :
       c.x1 < c.x2 /\ c.y1 < c.y2}

FlushArgs(h, w) ==
    UNION {[height : {h}, width : {w}, cpp : {cpp},
            pitch : Pitches(h, cpp), clip : FlushClips(h, w),
            done : {FALSE}, fb : {<<>>}] : cpp \in Cpps}

FlushInit ==
    /\ width = NarrowThreshold
    /\ probe \in FlushArgs(FlushHeight, FlushWidth)
    /\ file = FileOf([primary_layer |-> 0, secondary_layer |-> 1])
    /\ file_mtime = 0
    /\ config = file.cfg
    /\ last_modified_time = 0
    /\ current_modified_time = 0
    /\ active_layer = config.primary_layer
    /\ layers = RemoveFirstIfNarrow(width, initialize_layers)
    /\ needs_complete_redraw = TRUE
    /\ digitizer = None
    /\ touches = <<>>
    /\ bl = 1
    /\ fingers = {}
    /\ pc = "render"
    /\ nev = 0
    /\ out = <<>>
    /\ clips = <<>>
    /\ g_phase = 0
    /\ g_slot = <<>>
    /\ g_log = [stream |-> <<>>, act |-> <<>>]
    /\ inputs = <<>>
    /\ event = <<>>

FlushApply ==
    /\ ~probe.done
    /\ probe' = [probe EXCEPT
                    !.done = TRUE,
                    !.fb = flush(MappedFb(probe.pitch, probe.width),
                                 SurfaceData(probe.height, probe.width),
                                 <<probe.clip>>, probe.pitch, probe.cpp, 1)]
    /\ UNCHANGED <<width, filevars, config, last_modified_time,
                   current_modified_time, worldvars, bl, fingers, pc, nev,
                   out, clips, g_phase, g_slot, g_log, inputs, event>>

FlushNext == FlushApply

SpecFlush == FlushInit /\ [][FlushNext]_vars

\* ------------------------------------------------------------------------
\* C23: after the copy loop, for the clip rectangle and every row y of its
\* vertical extent, the framebuffer bytes of row y (at y * pitch) in the
\* rectangle's byte columns are the surface's bytes of row y in the same
\* byte columns, for every framebuffer pitch, equal to the surface's row
\* stride or not.
\* ------------------------------------------------------------------------
C23_FlushCopiesSurfaceRows ==
    probe.done =>
       /\ probe.fb # Panicked
       /\ \A y \in probe.clip.y1 .. (probe.clip.y2 - 1) :
          \A c \in (probe.clip.x1 * probe.cpp) ..
                    (probe.clip.x2 * probe.cpp - 1) :
             probe.fb[y * probe.pitch + c + 1] = <<y, c>>

\* the same with the framebuffer pitch equal to the surface's row stride
C23_EqualPitch ==
    probe.done /\ probe.pitch = SurfaceStride(probe.height) =>
       /\ probe.fb # Panicked
       /\ \A y \in probe.clip.y1 .. (probe.clip.y2 - 1) :
          \A c \in (probe.clip.x1 * probe.cpp) ..
                    (probe.clip.x2 * probe.cpp - 1) :
             probe.fb[y * probe.pitch + c + 1] = <<y, c>>

\* ========================================================================
\* The key-stream scenario: two fingers on the digitizer, at a point inside
\* the first button and at a point above the activation band, the Fn key,
\* rewrites of the configuration file and backlight changes, while the loop
\* runs.  g_log collects the key events written to the virtual device and
\* keeps the position of every finger that is down.
\* ========================================================================
\* most inputs of the key-stream scenario
MaxKeyInputs == 4

KSlots == {0, 1}
KPoints == {<<0, Height \div 2>>, <<0, 2>>}

KEvents ==
    {[type |-> "DeviceAdded", dev |-> "tb"]}
    \cup
    {[type |-> "Keyboard", key |-> "Fn", key_state |-> key_state] :
        key_state \in {"Pressed", "Released"}}
    \cup
    {TouchEvent(kind, "tb", slot, p) :
        kind \in {"Down", "Motion"}, slot \in KSlots, p \in KPoints}
    \cup
    {TouchEvent("Up", "tb", slot, <<0, 0>>) : slot \in KSlots}

KeysInit ==
    /\ width \in Widths
    /\ file \in FileContents \ {Bad}
    /\ file_mtime = 0
    /\ config = file.cfg
    /\ last_modified_time = 0
    /\ current_modified_time = 0
    /\ active_layer = config.primary_layer
    /\ layers = RemoveFirstIfNarrow(width, initialize_layers)
    /\ needs_complete_redraw = TRUE
    /\ digitizer = None
    /\ touches = <<>>
    /\ bl \in BacklightLevels
    /\ fingers = {}
    /\ pc = "reload"
    /\ nev = 0
    /\ out = <<>>
    /\ clips = <<>>
    /\ g_phase = 0
    /\ g_slot = <<>>
    /\ g_log = [stream |-> <<>>, pos |-> <<>>]
    /\ probe = <<>>
    /\ inputs = <<>>
    /\ event = <<>>

IsKeyEvent(e) == e.type = "Key"

KLogged(ev) ==
    g_log' = [stream |-> g_log.stream \o SelectSeq(out', IsKeyEvent),
              pos |-> [s \in fingers' |->
                         IF ev.type = "Touch" /\ ev.slot = s
                            /\ ev.kind \in {"Down", "Motion"}
                         THEN <<ev.x, ev.y>> ELSE g_log.pos[s]]]

KDispatch ==
    /\ nev < MaxKeyInputs
    /\ nev' = nev + 1
    /\ \E ev \in KEvents : DispatchEvent(ev, bl) /\ KLogged(ev)
    /\ UNCHANGED <<g_phase, g_slot, probe, inputs>>

KWriteFile == \E c \in FileContents \ {Bad} : WriteFile(c)

KUpdateBacklight == \E level \in UpdateBacklightLevels(bl) : UpdateBacklight(level)

KeysNext ==
    \/ KWriteFile
    \/ ReloadCheck
    \/ ReloadParse
    \/ ReloadInit
    \/ ClockDirty
    \/ Render
    \/ KDispatch
    \/ EndDispatch
    \/ KUpdateBacklight

SpecKeys == KeysInit /\ [][KeysNext]_vars

\* the values written for one key code, in order
ValuesOf(stream, code) ==
    LET OfCode(e) == e.code = code
        es == SelectSeq(stream, OfCode)
    IN  [k \in 1 .. Len(es) |-> es[k].value]

CodesOf(stream) == {stream[k].code : k \in 1 .. Len(stream)}

\* ------------------------------------------------------------------------
\* C24: whenever every finger that went down has been lifted, the last
\* value written for every key is 0 (release), whatever layer switches,
\* backlight changes and reloads happened in between.
\* ------------------------------------------------------------------------
C24_NoKeyStuck ==
    fingers = {} =>
       \A code \in CodesOf(g_log.stream) :
          LET vs == ValuesOf(g_log.stream, code) IN vs[Len(vs)] = 0

\* ------------------------------------------------------------------------
\* C25: for every key code the values written alternate 1, 0, 1, 0, ...,
\* starting with 1, even when the key is on several layers and across
\* reloads.
\* ------------------------------------------------------------------------
C25_KeyValuesAlternate ==
    \A code \in CodesOf(g_log.stream) :
       LET vs == ValuesOf(g_log.stream, code)
       IN  \A k \in 1 .. Len(vs) : vs[k] = k % 2

\* ------------------------------------------------------------------------
\* C27: while two slots have sessions on one button, no event deactivates
\* the button (and so writes no release of its key) as long as one of the
\* two fingers is still down at a point inside the button.
\* ------------------------------------------------------------------------
SessionsOn(tch, l, btn) == {s \in DOMAIN tch : tch[s] = <<l, btn>>}

HeldInside(l, btn) ==
    {s \in SessionsOn(touches', l, btn) \cap fingers' :
       button_hit(NumButtons(layers, l), btn, width, Height,
                  g_log'.pos[s][1], g_log'.pos[s][2])}

C27_SharedButtonHeldByLastFinger ==
    [][pc = "poll" =>
         \A l \in DOMAIN layers : \A btn \in 0 .. (NumButtons(layers, l) - 1) :
            /\ Cardinality(SessionsOn(touches, l, btn)) >= 2
            /\ ButtonAt(layers, l, btn).active
            /\ HeldInside(l, btn) # {}
            => ButtonAt(layers', l, btn).active /\ out' = <<>>]_vars

\* ========================================================================
\* The reload-retry scenario: another process rewrites the configuration
\* file, with a new modification time or keeping the one it has, while the
\* loop runs; no input arrives.  g_phase is 0 until a reload attempt fails,
\* 1 from a failed attempt on, and 2 once an attempt has succeeded after a
\* failed one.  The loop always takes its next step.
\* ========================================================================
RetryInit ==
    /\ width \in Widths
    /\ file \in FileContents \ {Bad}
    /\ file_mtime = 0
    /\ config = file.cfg
    /\ last_modified_time = 0
    /\ current_modified_time = 0
    /\ active_layer = config.primary_layer
    /\ layers = RemoveFirstIfNarrow(width, initialize_layers)
    /\ needs_complete_redraw = TRUE
    /\ digitizer = None
    /\ touches = <<>>
    /\ bl \in BacklightLevels
    /\ fingers = {}
    /\ pc = "reload"
    /\ nev = 0
    /\ out = <<>>
    /\ clips = <<>>
    /\ g_phase = 0
    /\ g_slot = <<>>
    /\ g_log = [stream |-> <<>>, act |-> <<>>]
    /\ probe = <<>>
    /\ inputs = <<>>
    /\ event = <<>>

RWriteFile == \E c \in FileContents : WriteFile(c)

\* the content is replaced and the modification time is left as it was
RWriteFileSameTime ==
    /\ pc \in {"reload", "parse", "init"}
    /\ nev < MaxInputs
    /\ nev' = nev + 1
    /\ \E c \in FileContents \ {file} : file' = c
    /\ out' = <<>>
    /\ clips' = <<>>
    /\ event' = <<>>
    /\ UNCHANGED <<width, file_mtime, config, last_modified_time,
                   current_modified_time, worldvars, bl, fingers, pc, gvars>>

\* mutant: a failed attempt records the modification time it has seen
RParse_consumes ==
    /\ pc = "parse"
    /\ IF ~file.valid
       THEN /\ pc' = "clock"
            /\ last_modified_time' = current_modified_time
            /\ g_phase' = 1
            /\ UNCHANGED config
       ELSE /\ config' = file.cfg
            /\ last_modified_time' = current_modified_time
            /\ pc' = "init"
            /\ g_phase' = IF g_phase = 1 THEN 2 ELSE g_phase
    /\ out' = <<>>
    /\ clips' = <<>>
    /\ event' = <<>>
    /\ UNCHANGED <<width, filevars, current_modified_time, worldvars, bl,
                   fingers, nev, g_slot, g_log, probe, inputs>>

\* match Config::from_file(config_path), with the outcome recorded
RParse ==
    /\ pc = "parse"
    /\ IF ~file.valid
       THEN /\ pc' = "clock"
            /\ g_phase' = 1
            /\ UNCHANGED <<config, last_modified_time>>
       ELSE /\ config' = file.cfg
            /\ last_modified_time' = current_modified_time
            /\ pc' = "init"
            /\ g_phase' = IF g_phase = 1 THEN 2 ELSE g_phase
    /\ out' = <<>>
    /\ clips' = <<>>
    /\ event' = <<>>
    /\ UNCHANGED <<width, filevars, current_modified_time, worldvars, bl,
                   fingers, nev, g_slot, g_log, probe, inputs>>

RUpdateBacklight == \E level \in UpdateBacklightLevels(bl) : UpdateBacklight(level)

\* the steps of the loop
RetryLoop ==
    \/ ReloadCheck
    \/ RParse
    \/ ReloadInit
    \/ ClockDirty
    \/ Render
    \/ EndDispatch
    \/ RUpdateBacklight

RetryNext ==
    \/ RWriteFile
    \/ RWriteFileSameTime
    \/ RetryLoop

\* the loop never waits longer than the poll timeout, so a step of the
\* loop that can be taken is taken
SpecRetry == RetryInit /\ [][RetryNext]_vars /\ WF_vars(RetryLoop)

\* ------------------------------------------------------------------------
\* C28: after a failed reload attempt the change stays pending (the
\* recorded modification time differs from the file's), so every following
\* iteration goes from the check to the parse until an attempt succeeds;
\* and once the file is valid after a failed attempt, the loop eventually
\* completes a reload (or the file is made invalid again first), even if the
\* modification time never changes again.
\* ------------------------------------------------------------------------
C28_FailedReloadIsRetried ==
    /\ [](g_phase = 1 => last_modified_time # file_mtime)
    /\ [][g_phase = 1 /\ pc = "reload" /\ pc' # pc => pc' = "parse"]_vars
    /\ [][g_phase = 1 /\ g_phase' = 2 => config' = file.cfg]_vars
    /\ (g_phase = 1 /\ file.valid) ~>
          ((g_phase = 2 /\ pc = "clock") \/ ~file.valid)

\* a reload has completed after a failed attempt, and the file was made
\* valid without a new modification time: two writes, one new time
C28_Witness ==
    /\ g_phase = 2
    /\ pc = "clock"
    /\ nev = 2
    /\ file_mtime = 1
    /\ last_modified_time = file_mtime
    /\ config = file.cfg

====
